---- MODULE Spec2Model ----
(***************************************************************************)
(* A model of ultralytics/data/base_m.py: BaseDataset_m, the paired        *)
(* RGB / infrared dataset.  The two modalities are two copies of the same  *)
(* code (load_image_rgb / load_image_ir, cache_images_rgb /                *)
(* cache_images_ir, ...); the model writes each once, with the modality    *)
(* m \in Modalities as a parameter, and names the two instances.           *)
(*                                                                         *)
(* Python values: None is the empty tuple, a list is a function on         *)
(* 0..n-1 (indices as in the source), the ring buffer is a sequence whose  *)
(* head is buffer[0].  An image path is <<m, stem, ext>>, a decoded image  *)
(* is <<path, h, w>>: the file it was decoded from and its current shape.  *)
(***************************************************************************)
EXTENDS Integers, Sequences, FiniteSets, TLC

\* ------------------------------------------------------------- bounds
MaxNi == 2          \* images per modality of a dataset whose consumer may ask for any index
MaxBatch == 1       \* batch_size
MaxNiEager == 2     \* images per modality of an eagerly cached dataset
MaxThreads == 2     \* NUM_THREADS
MaxNiRect == 2      \* images per modality of a dataset with rectangular batches
MaxBatchRect == 2   \* batch_size of a dataset with rectangular batches
MaxInputs == 2      \* entries of a list img_path
MaxLines == 2       \* lines of a manifest file
FractionDen == 4    \* fraction is one of 1/4, 2/4, 3/4, 4/4
MaxRows == 2        \* annotated objects of one picture
MaxClass == 1       \* the class ids are 0 .. MaxClass
MaxResizeSz == 14   \* imgsz of a dataset whose pictures are resized
MaxSmallSide == 4   \* sides of the small pictures that are resized
MaxHalfSide == 25   \* shorter side of the 1:2 and 2:1 pictures that are resized
Stride == 2         \* stride (32 by default; the images of the model are a few pixels wide)
ImgSz == 4          \* imgsz, the target size (640 by default; the images of the model are a few pixels wide)

\* ----------------------------------------------------- program constants
BufferFactor == 8   \* self.batch_size * 8
BufferCap == 1000   \* the 1000 of min((ni, batch_size * 8, 1000))

Modalities == {"rgb", "ir"}
None == <<>>

Min2(a, b) == IF a <= b THEN a ELSE b
Max2(a, b) == IF a >= b THEN a ELSE b
CeilDiv(a, b) == (a + b - 1) \div b
Range(s) == {s[k] : k \in DOMAIN s}

VARIABLES
    ni,                 \* self.ni
    batch_size,         \* self.batch_size
    augment,            \* self.augment
    imgsz,              \* self.imgsz
    max_buffer_length,  \* self.max_buffer_length
    im_files,           \* im_files[m][i]: self.im_files_rgb / self.im_files_ir
    ims,                \* ims[m][i]:      self.ims_rgb / self.ims_ir
    im_hw0,             \* im_hw0[m][i]:   self.im_hw0_rgb / self.im_hw0_ir
    im_hw,              \* im_hw[m][i]:    self.im_hw_rgb / self.im_hw_ir
    buffer,             \* buffer[m]:      self.buffer_rgb / self.buffer_ir
    disk_hw,            \* the filesystem: shape of the image stored at a path, None if cv2 cannot decode it
    npy,                \* the filesystem: npy[<<m, stem>>], the preprocessed file beside the image
    labels,             \* labels[m][i]:   self.labels_rgb / self.labels_ir
    ret,                \* the last call and what it returned (history)
    first_ret,          \* first_ret[m][i]: what the first load of i returned, None before it (history)
    gone,               \* gone[m]: the indices evicted by the ring buffer and not loaded since (history)
    fresh_calls,        \* fresh_calls[m]: the number of load calls so far while each was the first load
                        \* of its index and returned; -1 once a call was not (history)
    first_idx,          \* first_idx[m]: while fresh_calls[m] >= 0, the indices of the first two load
                        \* calls in call order (history)
    cursor,             \* cursor[m]: the consumer's position in its sequential pass over a large dataset
    rect,               \* self.rect
    batch,              \* self.batch
    batch_shapes,       \* self.batch_shapes
    stride,             \* self.stride
    pad,                \* self.pad, a fraction <<numerator, denominator>>
    orig_files,         \* the path lists as get_img_files returned them (history)
    img_path,           \* the img_path argument of get_img_files: <<"one", p>> or <<"list", ps>>
    fraction,           \* self.fraction, a fraction <<numerator, denominator>>
    disk,               \* the filesystem: the files below the image directory
    manifest,           \* the filesystem: the lines of the manifest file
    include_class,      \* the include_class argument of update_labels: None or <<allowed ids>>
    single_cls,         \* self.single_cls
    labels0,            \* the labels as get_labels_rgb / get_labels_ir returned them (history)
    cache,              \* the constructor's cache after line 98: "none" (False), "ram" or "disk"
    num_threads,        \* NUM_THREADS, the size of the ThreadPool
    main,               \* the constructing thread: which cache_images_* it runs, the result it
                        \* collects next and how much of line 218 it has done
    task,               \* task[i]: the pool's call fcn(i) of the running cache_images_*: its
                        \* position and its locals
    writes              \* the writes of shared state the pool's calls have done (history)

argVars == <<img_path, fraction, disk, manifest, include_class, single_cls, labels0>>
cfgVars == <<ni, batch_size, augment, imgsz, max_buffer_length, disk_hw, rect, cache, num_threads,
             stride, pad, orig_files, argVars>>
poolVars == <<main, task, writes>>
listVars == <<im_files, labels, batch, batch_shapes>>
cacheVars == <<ims, im_hw0, im_hw, buffer>>
histVars == <<ret, first_ret, gone, fresh_calls, first_idx>>
vars == <<cfgVars, listVars, cacheVars, npy, histVars, cursor, poolVars>>

\* --------------------------------------------------------- filesystem
NpyAbsent == [st |-> "absent", im |-> None]
NpyCorrupt == [st |-> "corrupt", im |-> None]
NpyOf(im) == [st |-> "ok", im |-> im]

\* Path(f).with_suffix(".npy"): the extension is replaced, the stem is kept.
npy_file(f) == <<f[1], f[2]>>

imreadBlank(hwOf, f) == IF hwOf[f] = None THEN <<f, 1, 1>> ELSE <<f, hwOf[f][1], hwOf[f][2]>>

\* cv2.imread(f): the decoded image, None when the file cannot be decoded.
imread(hwOf, f) == IF hwOf[f] = None THEN None ELSE <<f, hwOf[f][1], hwOf[f][2]>>

\* im.shape[:2]
shape(im) == <<im[2], im[3]>>

\* cv2.resize(im, (w, h)): the same picture with a new shape.
resize(im, w, h) == <<im[1], h, w>>

\* ------------------------------------------------ float arithmetic
\* Lines 188-190 compute in IEEE 754 doubles: r = imgsz / max(h0, w0) is the
\* double nearest to the quotient, w0 * r the double nearest to the product.
\* A natural number is held as a sequence of limbs, least significant
\* first, each below LimbBase = 2^15; the operands are below LimbBase.
LimbBase == 32768
LimbBits == 15
Mantissa == 53          \* significant bits of a double
DividendLimbs == 5      \* the dividend is imgsz * 2^75

Pow2(n) == 2 ^ n

\* Without leading zero limbs.
RECURSIVE BigTrim(_)
BigTrim(a) == IF a # <<>> /\ a[Len(a)] = 0 THEN BigTrim(SubSeq(a, 1, Len(a) - 1)) ELSE a

\* a * k + carry for a small k
RECURSIVE BigMulSmall(_, _, _)
BigMulSmall(a, k, carry) ==
    IF a = <<>> THEN (IF carry = 0 THEN <<>> ELSE <<carry>>)
    ELSE <<(Head(a) * k + carry) % LimbBase>>
         \o BigMulSmall(Tail(a), k, (Head(a) * k + carry) \div LimbBase)

\* a divided by a small d: [q, r], from the most significant limb down.
RECURSIVE BigDivSmall(_, _, _)
BigDivSmall(a, d, rem) ==
    IF a = <<>> THEN [q |-> <<>>, r |-> rem]
    ELSE LET cur == rem * LimbBase + a[Len(a)]
             rest == BigDivSmall(SubSeq(a, 1, Len(a) - 1), d, cur % d)
         IN [q |-> rest.q \o <<cur \div d>>, r |-> rest.r]

\* The number of bits of a small number and of a trimmed big one.
BitLen(n) == IF n = 0 THEN 0 ELSE CHOOSE b \in 1 .. LimbBits : Pow2(b - 1) <= n /\ n < Pow2(b)
BigBitLen(a) == IF a = <<>> THEN 0 ELSE (Len(a) - 1) * LimbBits + BitLen(a[Len(a)])

\* a shifted right by n bits: [q, inexact], inexact telling whether a set
\* bit was shifted out (or had been, if sticky).  Whole limbs go first.
BigShr(a, n, sticky) ==
    LET k == Min2(n \div LimbBits, Len(a))
        d == BigDivSmall(SubSeq(a, k + 1, Len(a)), Pow2(n % LimbBits), 0)
    IN [q |-> BigTrim(d.q),
        inexact |-> sticky \/ d.r # 0 \/ \E j \in 1 .. k : a[j] # 0]

BigIsOdd(a) == a # <<>> /\ a[1] % 2 = 1

\* a / 2^n rounded to the nearest integer, a half to the even side.
BigRoundShr(a, n, sticky) ==
    IF n = 0 THEN BigTrim(a)
    ELSE LET low == BigShr(a, n - 1, sticky)
             half == BigIsOdd(low.q)
             q == BigShr(low.q, 1, FALSE).q
         IN IF half /\ (low.inexact \/ BigIsOdd(q)) THEN BigTrim(BigMulSmall(q, 1, 1)) ELSE q

\* A positive double is [m, e]: the value m * 2^-e, m of Mantissa bits.
\* FloatOf(a, n, sticky): the double nearest to a * 2^-n.
FloatOf(a, n, sticky) ==
    LET drop == Max2(BigBitLen(BigTrim(a)) - Mantissa, 0)
    IN [m |-> BigRoundShr(a, drop, sticky), e |-> n - drop]

\* num / den in doubles, for 0 < num, den < LimbBase
FloatDiv(num, den) ==
    LET d == BigDivSmall([k \in 1 .. DividendLimbs + 1 |->
                             IF k = DividendLimbs + 1 THEN num ELSE 0], den, 0)
    IN FloatOf(BigTrim(d.q), DividendLimbs * LimbBits, d.r # 0)

\* k * x in doubles, for 0 < k < LimbBase
FloatMulInt(k, x) == FloatOf(BigMulSmall(x.m, k, 0), x.e, FALSE)

\* math.ceil(x) for a double x below LimbBase * LimbBase
FloatCeil(x) ==
    LET sh == BigShr(x.m, x.e, FALSE)
        fl == IF sh.q = <<>> THEN 0
              ELSE IF Len(sh.q) = 1 THEN sh.q[1]
              ELSE sh.q[2] * LimbBase + sh.q[1]
    IN IF sh.inexact THEN fl + 1 ELSE fl

\* a + b
RECURSIVE BigAdd(_, _, _)
BigAdd(a, b, carry) ==
    IF a = <<>> /\ b = <<>> THEN (IF carry = 0 THEN <<>> ELSE <<carry>>)
    ELSE LET x == IF a = <<>> THEN 0 ELSE Head(a)
             y == IF b = <<>> THEN 0 ELSE Head(b)
         IN <<(x + y + carry) % LimbBase>>
            \o BigAdd(IF a = <<>> THEN a ELSE Tail(a), IF b = <<>> THEN b ELSE Tail(b),
                      (x + y + carry) \div LimbBase)

\* a - b for trimmed a >= b
RECURSIVE BigSub(_, _, _)
BigSub(a, b, borrow) ==
    IF a = <<>> THEN <<>>
    ELSE LET y == (IF b = <<>> THEN 0 ELSE Head(b)) + borrow
         IN <<(Head(a) - y + LimbBase) % LimbBase>>
            \o BigSub(Tail(a), IF b = <<>> THEN b ELSE Tail(b), IF Head(a) < y THEN 1 ELSE 0)

\* a >= b for trimmed a, b
RECURSIVE BigGE(_, _)
BigGE(a, b) ==
    IF Len(a) # Len(b) THEN Len(a) > Len(b)
    ELSE IF a = <<>> THEN TRUE
    ELSE IF a[Len(a)] # b[Len(b)] THEN a[Len(a)] > b[Len(b)]
    ELSE BigGE(SubSeq(a, 1, Len(a) - 1), SubSeq(b, 1, Len(b) - 1))

\* a * 2^n
BigShl(a, n) ==
    [k \in 1 .. n \div LimbBits |-> 0] \o BigMulSmall(a, Pow2(n % LimbBits), 0)

\* The next n quotient bits of rem * 2^n / d for rem < d: [q, r], q a number.
RECURSIVE BigDivPow2(_, _, _, _)
BigDivPow2(n, d, q, rem) ==
    IF n = 0 THEN [q |-> q, r |-> rem]
    ELSE LET r2 == BigMulSmall(rem, 2, 0)
         IN IF BigGE(r2, d)
            THEN BigDivPow2(n - 1, d, 2 * q + 1, BigTrim(BigSub(r2, d, 0)))
            ELSE BigDivPow2(n - 1, d, 2 * q, r2)

\* rem * LimbBase^k / d for rem < d, a limb at a time: [q, r].
RECURSIVE BigDivLimbs(_, _, _)
BigDivLimbs(k, d, rem) ==
    IF k = 0 THEN [q |-> <<>>, r |-> rem]
    ELSE LET top == BigDivPow2(LimbBits, d, 0, rem)
             rest == BigDivLimbs(k - 1, d, top.r)
         IN [q |-> rest.q \o <<top.q>>, r |-> rest.r]

FloatZero == [m |-> <<>>, e |-> 0]
FloatOne == [m |-> <<1>>, e |-> 0]

\* float(num / den) for the fractions the model writes pad as
FloatOfFraction(fr) == IF fr[1] = 0 THEN FloatZero ELSE FloatDiv(fr[1], fr[2])

\* 1 / x in doubles: a power of two divided by the mantissa of x, by long
\* division starting from the remainder 2^(Mantissa - 1).
FloatRecip(x) ==
    LET k == Len(x.m)
        one == BigShl(<<1>>, Mantissa - 1)
        d == IF one = x.m THEN [q |-> [j \in 1 .. k + 1 |-> IF j = k + 1 THEN 1 ELSE 0], r |-> <<>>]
             ELSE BigDivLimbs(k, x.m, one)
    IN FloatOf(BigTrim(d.q), Mantissa - 1 + k * LimbBits - x.e, d.r # <<>>)

\* x / k in doubles, for 0 < k < LimbBase
FloatDivInt(x, k) ==
    LET d == BigDivSmall([j \in 1 .. DividendLimbs |-> 0] \o x.m, k, 0)
    IN FloatOf(BigTrim(d.q), x.e + DividendLimbs * LimbBits, d.r # 0)

\* x + y in doubles
FloatAdd(x, y) ==
    IF y.m = <<>> THEN x
    ELSE IF x.m = <<>> THEN y
    ELSE LET e == Max2(x.e, y.e)
         IN FloatOf(BigTrim(BigAdd(BigShl(x.m, e - x.e), BigShl(y.m, e - y.e), 0)), e, FALSE)

\* ceil(side * sz / mx) of the exact quotient
CeilExact(side, sz, mx) == CeilDiv(side * sz, mx)

\* Line 190: math.ceil(side * r) for the double r
CeilScaled(side, r) == FloatCeil(FloatMulInt(side, r))

\* Lines 188-190 for the small pictures, ScaledSides[sz][mx][side], computed
\* once: the sequences hold their values, where a function would compute
\* them anew at every application.
KnownSide == MaxBatch * BufferFactor + 1
ScaledSides ==
    <<>> \o [sz \in 1 .. ImgSz |->
        <<>> \o [mx \in 1 .. KnownSide |->
            <<>> \o [side \in 1 .. mx |-> CeilScaled(side, FloatDiv(sz, mx))]]]

\* Lines 188-190: math.ceil(side * r) with r = self.imgsz / max(h0, w0)
ScaledSide(side, sz, mx) ==
    IF sz <= ImgSz /\ mx <= KnownSide
    THEN ScaledSides[sz][mx][side]
    ELSE CeilScaled(side, FloatDiv(sz, mx))

\* ------------------------------------------------------- load_image_*
ReadImageKeepCorrupt(hwOf, fs, f) ==
    LET fn == npy_file(f) IN
    IF fs[fn].st = "ok" THEN [im |-> fs[fn].im, fs |-> fs, via |-> "npy"]
    ELSE [im |-> imread(hwOf, f), fs |-> fs,
          via |-> IF fs[fn].st = "corrupt" THEN "fallback" ELSE "raw"]

\* Lines 173-182: the image read for a slot that is not in RAM, and the
\* preprocessed file afterwards (a corrupt one is unlinked); via tells the
\* branch taken: np.load, imread after a failed np.load, or imread alone.
ReadImage(hwOf, fs, f) ==
    LET fn == npy_file(f) IN
    IF fs[fn].st # "absent"                                  \* fn.exists()
    THEN IF fs[fn].st = "ok"
         THEN [im |-> fs[fn].im, fs |-> fs, via |-> "npy"]    \* np.load(fn)
         ELSE [im |-> imread(hwOf, f),                        \* except: unlink, imread
               fs |-> [fs EXCEPT ![fn] = NpyAbsent], via |-> "fallback"]
    ELSE [im |-> imread(hwOf, f), fs |-> fs, via |-> "raw"]

\* Lines 186-193: the resize of a freshly read image.
Resized(im, sz, rect_mode) ==
    LET h0 == im[2]
        w0 == im[3]
        mx == Max2(h0, w0)
    IN IF rect_mode
       THEN IF sz # mx                                        \* r != 1
            THEN resize(im, Min2(ScaledSide(w0, sz, mx), sz), Min2(ScaledSide(h0, sz, mx), sz))
            ELSE im
       ELSE IF ~(h0 = w0 /\ w0 = sz)
            THEN resize(im, sz, sz)
            ELSE im

\* Line 199: len(self.buffer) >= self.max_buffer_length
BufferFullStrict(buf, mbl) == Len(buf) > mbl
BufferFull(buf, mbl) == Len(buf) >= mbl

\* Line 200: j = self.buffer.pop(0)
PopIndexNewest(buf) == buf[Len(buf)]
PopIndex(buf) == Head(buf)

PopRestKeep(buf) == buf
PopRest(buf) == Tail(buf)

\* Line 201: the three fields of slot j that eviction resets.
ClearedFieldsNoImage == {"im_hw0", "im_hw"}
ClearedFields == {"ims", "im_hw0", "im_hw"}

\* One modality's cache: [ims, im_hw0, im_hw, buffer].
Cache(m) == [ims |-> ims[m], im_hw0 |-> im_hw0[m], im_hw |-> im_hw[m], buffer |-> buffer[m]]

\* Lines 196-201: store the triple in slot i, append i, evict the front.
StoreAndEvict(c, i, im, hw0, aug, mbl) ==
    IF ~aug
    THEN [c |-> c, evicted |-> None]
    ELSE LET c1 == [c EXCEPT !.ims[i] = im, !.im_hw0[i] = hw0, !.im_hw[i] = shape(im),
                             !.buffer = Append(c.buffer, i)]
         IN IF BufferFull(c1.buffer, mbl)
            THEN LET j == PopIndex(c1.buffer) IN
                 [c |-> [ims    |-> IF "ims" \in ClearedFields
                                    THEN [c1.ims EXCEPT ![j] = None] ELSE c1.ims,
                         im_hw0 |-> IF "im_hw0" \in ClearedFields
                                    THEN [c1.im_hw0 EXCEPT ![j] = None] ELSE c1.im_hw0,
                         im_hw  |-> IF "im_hw" \in ClearedFields
                                    THEN [c1.im_hw EXCEPT ![j] = None] ELSE c1.im_hw,
                         buffer |-> PopRest(c1.buffer)],
                  evicted |-> <<j>>]
            ELSE [c |-> c1, evicted |-> None]

CacheAfterHitMoved(c, i) ==
    [c EXCEPT !.buffer = SelectSeq(c.buffer, LAMBDA j : j # i) \o <<i>>]

\* Line 205: a slot that is in RAM is returned; nothing is written.
CacheAfterHit(c, i) == c

\* Lines 170-205 / 229-264: load_image_rgb, load_image_ir as a function of
\* one modality's cache c and the filesystem fs.  The result holds the new
\* cache and filesystem, the returned triple (None when the call raised
\* FileNotFoundError, whose message error then holds), how the image was
\* obtained and the evicted index.
load_image(c, hwOf, fs, f, i, rect_mode, sz, aug, mbl) ==
    IF c.ims[i] # None
    THEN [c |-> CacheAfterHit(c, i), fs |-> fs, raised |-> FALSE, via |-> "ram",
          evicted |-> None,
          triple |-> <<c.ims[i], c.im_hw0[i], c.im_hw[i]>>, error |-> None]
    ELSE LET rd == ReadImage(hwOf, fs, f) IN
         IF rd.im = None
         THEN [c |-> c, fs |-> rd.fs, raised |-> TRUE, via |-> rd.via, evicted |-> None,
               triple |-> None, error |-> <<"Image Not Found", f>>]            \* line 184
         ELSE LET im == Resized(rd.im, sz, rect_mode)
                  hw0 == shape(rd.im)
                  se == StoreAndEvict(c, i, im, hw0, aug, mbl)
              IN [c |-> se.c, fs |-> rd.fs, raised |-> FALSE, via |-> rd.via,
                  evicted |-> se.evicted, triple |-> <<im, hw0, shape(im)>>, error |-> None]

\* ------------------------------------------------------ construction
\* Line 94: min((self.ni, self.batch_size * 8, 1000)) if self.augment else 0
MaxBufferLength(n, bs, aug) ==
    IF aug THEN Min2(n, Min2(bs * BufferFactor, BufferCap)) ELSE 0

Indices == 0 .. ni - 1

\* Lines 99-101: [None] * self.ni, three times per modality.
EmptySlots(n) == [m \in Modalities |-> [i \in 0 .. n - 1 |-> None]]

\* The files of a dataset of n pairs whose stems differ: pair k is
\* <<"rgb", k, "jpg">> and <<"ir", k, "jpg">>, in sorted order.
PlainFiles(n) == [m \in Modalities |-> [k \in 0 .. n - 1 |-> <<m, k, "jpg">>]]

\* The shape (h, w) of the picture stored at a path.
PlainShape(f) == IF f[1] = "rgb" THEN <<f[2] + 1, 2>> ELSE <<2, f[2] + 1>>

\* get_labels_rgb / get_labels_ir (abstract in the source, lines 383-423):
\* one record per path, index-aligned with the path list.  An IR label
\* keeps its path under "im_file_ir", the key line 347 reads.
LabelsOf(files, hwOf) ==
    [rgb |-> [k \in DOMAIN files["rgb"] |->
                 [im_file |-> files["rgb"][k], shape |-> hwOf[files["rgb"][k]]]],
     ir  |-> [k \in DOMAIN files["ir"] |->
                 [im_file_ir |-> files["ir"][k], shape |-> hwOf[files["ir"][k]]]]]

\* What one load_image call did, as the history keeps it.
NoInfo == [called |-> FALSE, raised |-> FALSE, via |-> "none", evicted |-> None,
           oldest |-> None, triple |-> None, reload |-> FALSE, error |-> None]

NoCall == [op |-> "init", i |-> 0, raised |-> FALSE,
           info |-> [m \in Modalities |-> NoInfo], label |-> None]

\* No call of the pool is queued or running.
NoTasks == <<>>

Constructed == [at |-> "done", next |-> 0, step |-> 0]

\* The arguments of get_img_files and update_labels when the specification
\* starts after both: the whole list is kept and no class is filtered.
NoFileArguments ==
    /\ img_path = None
    /\ fraction = <<1, 1>>
    /\ disk = {}
    /\ manifest = <<>>

NoLabelArguments ==
    /\ include_class = None
    /\ single_cls = FALSE
    /\ labels0 = None

\* Lines 69-102: the dataset before line 103 decides on eager caching.
InitDataset(n, bs, aug, files, hwOf, fs) ==
    /\ NoFileArguments
    /\ NoLabelArguments
    /\ ni = n
    /\ batch_size = bs
    /\ augment = aug
    /\ imgsz = ImgSz
    /\ max_buffer_length = MaxBufferLength(n, bs, aug)
    /\ im_files = files
    /\ labels = LabelsOf(files, hwOf)
    /\ disk_hw = hwOf
    /\ npy = fs
    /\ ims = EmptySlots(n)
    /\ im_hw0 = EmptySlots(n)
    /\ im_hw = EmptySlots(n)
    /\ buffer = [m \in Modalities |-> <<>>]
    /\ rect = FALSE
    /\ batch = None
    /\ batch_shapes = None
    /\ stride = Stride
    /\ pad = <<1, 2>>
    /\ orig_files = files
    /\ ret = NoCall
    /\ first_ret = EmptySlots(n)
    /\ gone = [m \in Modalities |-> {}]
    /\ fresh_calls = [m \in Modalities |-> 0]
    /\ first_idx = [m \in Modalities |-> <<>>]
    /\ cursor = [m \in Modalities |-> 0]

\* Lines 91-108 with cache = False: the state after construction.
InitLazy(n, bs, aug, files, hwOf, fs) ==
    /\ InitDataset(n, bs, aug, files, hwOf, fs)
    /\ cache = "none"
    /\ num_threads = 1
    /\ main = Constructed
    /\ task = NoTasks
    /\ writes = {}

\* The filesystems the lazy specification starts from: every picture
\* decodable or the first of each modality not, and the preprocessed file of
\* the first of each modality absent, corrupt or holding its decoded picture.
LazyDisks(files) ==
    LET paths == UNION {Range(files[m]) : m \in Modalities}
        hwAll == [f \in paths |-> PlainShape(f)]
    IN {[hw  |-> [f \in paths |-> IF bad /\ f[2] = 0 THEN None ELSE hwAll[f]],
         npy |-> [fn \in {npy_file(f) : f \in paths} |->
                    IF fn[2] # 0 THEN NpyAbsent
                    ELSE IF st = "absent" THEN NpyAbsent
                    ELSE IF st = "corrupt" THEN NpyCorrupt
                    ELSE NpyOf(<<<<fn[1], fn[2], "jpg">>, hwAll[<<fn[1], fn[2], "jpg">>][1],
                                 hwAll[<<fn[1], fn[2], "jpg">>][2]>>)]]
        : bad \in BOOLEAN, st \in {"absent", "corrupt", "ok"}}

\* The smallest dataset that is larger than its ring buffer: one image more
\* than batch_size * 8.
LargeNi(bs) == bs * BufferFactor + 1

\* The datasets of the lazy specification: 1..MaxNi images with batch_size 1
\* (below 8 images the buffer bound is ni whatever the batch size), and for
\* every batch size the large dataset, whose bound is batch_size * 8.
LazySizes ==
    {<<n, 1>> : n \in 1 .. MaxNi} \cup {<<LargeNi(bs), bs>> : bs \in 1 .. MaxBatch}

Init ==
    \E nb \in LazySizes, aug \in BOOLEAN :
        \E d \in LazyDisks(PlainFiles(nb[1])) :
            InitLazy(nb[1], nb[2], aug, PlainFiles(nb[1]), d.hw, d.npy)

\* ----------------------------------------------------------- history
InfoOf(m, i, r, c, g) ==
    [called |-> TRUE, raised |-> r.raised, via |-> r.via, evicted |-> r.evicted,
     oldest |-> <<Head(Append(c.buffer, i))>>, triple |-> r.triple, reload |-> i \in g[m],
     error |-> r.error]

FirstAfter(fr, m, i, r) ==
    IF ~r.raised /\ fr[m][i] = None THEN [fr EXCEPT ![m][i] = r.triple] ELSE fr

GoneAfter(g, m, i, r) ==
    LET g1 == IF r.raised THEN g ELSE [g EXCEPT ![m] = @ \ {i}] IN
    IF r.evicted # None THEN [g1 EXCEPT ![m] = @ \cup {r.evicted[1]}] ELSE g1

FreshAfter(fc, fr, m, i, r) ==
    IF fc[m] >= 0 /\ ~r.raised /\ fr[m][i] = None
    THEN [fc EXCEPT ![m] = @ + 1]
    ELSE [fc EXCEPT ![m] = -1]

FirstIdxAfter(fi, fc, m, i) ==
    IF fc[m] < 0 THEN [fi EXCEPT ![m] = <<>>]
    ELSE IF Len(fi[m]) < 2 THEN [fi EXCEPT ![m] = Append(@, i)]
    ELSE fi

CursorAfter(cu, m, i) == IF cu[m] = i THEN [cu EXCEPT ![m] = (i + 1) % ni] ELSE cu

\* ------------------------------------------------------------- inputs
\* The indices a consumer asks for.  Of a dataset of at most MaxNi images:
\* any index.  Of the large dataset: the next index of its sequential pass
\* (which wraps around, so that evicted indices are loaded again) and the
\* oldest and the newest index of the ring buffer.
Inputs(m) ==
    IF ni <= MaxNi
    THEN Indices
    ELSE {cursor[m]}
         \cup (IF buffer[m] # <<>> THEN {Head(buffer[m]), buffer[m][Len(buffer[m])]} ELSE {})

\* ------------------------------------------------------------ actions
\* A call of load_image_rgb(i) / load_image_ir(i) by the single consumer
\* thread; rect_mode keeps its default, as at every call site (212, 349).
LoadImage(m, i) ==
    /\ main.at = "done"
    /\ \E r \in {load_image(Cache(m), disk_hw, npy, im_files[m][i], i, TRUE, imgsz,
                             augment, max_buffer_length)} :
        /\ ims' = [ims EXCEPT ![m] = r.c.ims]
        /\ im_hw0' = [im_hw0 EXCEPT ![m] = r.c.im_hw0]
        /\ im_hw' = [im_hw EXCEPT ![m] = r.c.im_hw]
        /\ buffer' = [buffer EXCEPT ![m] = r.c.buffer]
        /\ npy' = r.fs
        /\ ret' = [op |-> "load", i |-> i, raised |-> r.raised,
                   info |-> [NoCall.info EXCEPT ![m] = InfoOf(m, i, r, Cache(m), gone)],
                   label |-> None]
        /\ first_ret' = FirstAfter(first_ret, m, i, r)
        /\ gone' = GoneAfter(gone, m, i, r)
        /\ fresh_calls' = FreshAfter(fresh_calls, first_ret, m, i, r)
        /\ first_idx' = FirstIdxAfter(first_idx, fresh_calls', m, i)
        /\ cursor' = CursorAfter(cursor, m, i)
    /\ UNCHANGED <<cfgVars, listVars, poolVars>>

load_image_rgb == \E i \in Inputs("rgb") : LoadImage("rgb", i)

load_image_ir == \E i \in Inputs("ir") : LoadImage("ir", i)

IrIndexNext(index) == (index + 1) % ni

\* Line 350: self.load_image_ir(index), the index of the RGB load.
IrIndex(index) == index

\* Lines 344-357: get_image_and_label(index).  The record is built from the
\* RGB label at index, the IR label at index and the two loads; a load that
\* raises ends the call where it is, and so does line 351.
get_image_and_label(index) ==
    /\ main.at = "done"
    /\ \E r1 \in {load_image(Cache("rgb"), disk_hw, npy, im_files["rgb"][index], index, TRUE,
                              imgsz, augment, max_buffer_length)} :
       \E r2 \in {IF r1.raised
                  THEN [c |-> Cache("ir"), fs |-> r1.fs, raised |-> TRUE, via |-> "none",
                        evicted |-> None, triple |-> None, error |-> None]
                  ELSE load_image(Cache("ir"), disk_hw, r1.fs, im_files["ir"][IrIndex(index)],
                                  IrIndex(index),
                                  TRUE, imgsz, augment, max_buffer_length)} :
        LET \* lines 351-354 subscript the two shapes: a None among them raises TypeError
            ok == /\ ~r1.raised
                  /\ ~r2.raised
                  /\ r1.triple[2] # None
                  /\ r1.triple[3] # None
            label == [im_file       |-> labels["rgb"][index].im_file,
                      im_file_ir    |-> labels["ir"][index].im_file_ir,
                      img_rgb       |-> r1.triple[1],
                      ori_shape     |-> r1.triple[2],
                      resized_shape |-> r1.triple[3],
                      img_ir        |-> r2.triple[1],
                      ratio_pad     |-> <<<<r1.triple[3][1], r1.triple[2][1]>>,
                                          <<r1.triple[3][2], r1.triple[2][2]>>>>,
                      rect_shape    |-> IF rect THEN batch_shapes[batch[index]] ELSE None]
            g1 == GoneAfter(gone, "rgb", index, r1)
            f1 == FirstAfter(first_ret, "rgb", index, r1)
            n1 == FreshAfter(fresh_calls, first_ret, "rgb", index, r1)
            x1 == FirstIdxAfter(first_idx, n1, "rgb", index)
            u1 == CursorAfter(cursor, "rgb", index)
        IN /\ ims' = [rgb |-> r1.c.ims, ir |-> r2.c.ims]
           /\ im_hw0' = [rgb |-> r1.c.im_hw0, ir |-> r2.c.im_hw0]
           /\ im_hw' = [rgb |-> r1.c.im_hw, ir |-> r2.c.im_hw]
           /\ buffer' = [rgb |-> r1.c.buffer, ir |-> r2.c.buffer]
           /\ npy' = r2.fs
           /\ ret' = [op |-> "get", i |-> index, raised |-> ~ok,
                      info |-> [rgb |-> InfoOf("rgb", index, r1, Cache("rgb"), gone),
                                ir  |-> IF r1.raised THEN NoInfo
                                        ELSE InfoOf("ir", IrIndex(index), r2, Cache("ir"), gone)],
                      label |-> IF ok THEN label ELSE None]
           /\ first_ret' = IF r1.raised THEN f1 ELSE FirstAfter(f1, "ir", IrIndex(index), r2)
           /\ gone' = IF r1.raised THEN g1 ELSE GoneAfter(g1, "ir", IrIndex(index), r2)
           /\ fresh_calls' = IF r1.raised THEN n1
                             ELSE FreshAfter(n1, first_ret, "ir", IrIndex(index), r2)
           /\ first_idx' = IF r1.raised THEN x1
                           ELSE FirstIdxAfter(x1, fresh_calls', "ir", IrIndex(index))
           /\ cursor' = IF r1.raised THEN u1 ELSE CursorAfter(u1, "ir", IrIndex(index))
    /\ UNCHANGED <<cfgVars, listVars, poolVars>>

GetItem == \E index \in Inputs("rgb") \cap Inputs("ir") : get_image_and_label(index)

Next == load_image_rgb \/ load_image_ir \/ GetItem

Spec == Init /\ [][Next]_vars

\* ------------------------------------------------------ eager caching
\* Lines 207-227 / 266-286: cache_images_rgb and cache_images_ir, one after
\* the other (lines 104-105).  pool.imap queues fcn(0), ..., fcn(ni - 1); a
\* worker thread takes the next queued call when it is free, so at most
\* NUM_THREADS calls run at a time and they start in index order; the
\* constructing thread collects the results in index order.  Threads are
\* switched between bytecodes: each store of a tuple assignment, each list
\* call and each file operation is a step of its own.
Queued == [pc |-> "queued", im |-> None, hw0 |-> None, j |-> None, res |-> None]

NewTasks(n) == [i \in 0 .. n - 1 |-> Queued]

Running == {k \in DOMAIN task : task[k].pc \notin {"queued", "done", "raised"}}

CanStart(i) ==
    /\ main.at \in Modalities
    /\ i \in DOMAIN task
    /\ task[i].pc = "queued"
    /\ \A k \in DOMAIN task : k < i => task[k].pc # "queued"
    /\ Cardinality(Running) < num_threads

Wrote(i, loc, over) == writes' = writes \cup {[w |-> i, loc |-> loc, over |-> over]}

\* Lines 172-193 in a worker: fcn = load_image_*, up to the resize.
WorkerLoad(i) ==
    LET m == main.at
        rd == ReadImage(disk_hw, npy, im_files[m][i])
        im == Resized(rd.im, imgsz, TRUE)
    IN /\ CanStart(i)
       /\ cache = "ram"
       /\ IF ims[m][i] # None
          THEN /\ task' = [task EXCEPT ![i].pc = "done",
                                       ![i].res = <<ims[m][i], im_hw0[m][i], im_hw[m][i]>>]
               /\ UNCHANGED npy
          ELSE /\ npy' = rd.fs
               /\ task' = IF rd.im = None
                          THEN [task EXCEPT ![i].pc = "raised"]
                          ELSE [task EXCEPT ![i].im = im, ![i].hw0 = shape(rd.im),
                                            ![i].res = <<im, shape(rd.im), shape(im)>>,
                                            ![i].pc = IF augment THEN "store_ims" ELSE "done"]
       /\ UNCHANGED <<cfgVars, listVars, cacheVars, histVars, cursor, main, writes>>

\* Line 197 in a worker, one store at a time.
WorkerStore(i) ==
    LET m == main.at IN
    /\ main.at \in Modalities
    /\ i \in DOMAIN task
    /\ \/ /\ task[i].pc = "store_ims"
          /\ ims' = [ims EXCEPT ![m][i] = task[i].im]
          /\ task' = [task EXCEPT ![i].pc = "store_hw0"]
          /\ UNCHANGED <<im_hw0, im_hw>>
       \/ /\ task[i].pc = "store_hw0"
          /\ im_hw0' = [im_hw0 EXCEPT ![m][i] = task[i].hw0]
          /\ task' = [task EXCEPT ![i].pc = "store_hw"]
          /\ UNCHANGED <<ims, im_hw>>
       \/ /\ task[i].pc = "store_hw"
          /\ im_hw' = [im_hw EXCEPT ![m][i] = shape(task[i].im)]
          /\ task' = [task EXCEPT ![i].pc = "append"]
          /\ UNCHANGED <<ims, im_hw0>>
    /\ Wrote(i, <<"slot", m, i>>, FALSE)
    /\ UNCHANGED <<cfgVars, listVars, buffer, npy, histVars, cursor, main>>

\* Line 198 in a worker.
WorkerAppend(i) ==
    LET m == main.at IN
    /\ main.at \in Modalities
    /\ i \in DOMAIN task
    /\ task[i].pc = "append"
    /\ buffer' = [buffer EXCEPT ![m] = Append(@, i)]
    /\ task' = [task EXCEPT ![i].pc = "check"]
    /\ Wrote(i, <<"buffer", m, 0>>, FALSE)
    /\ UNCHANGED <<cfgVars, listVars, ims, im_hw0, im_hw, npy, histVars, cursor, main>>

\* Lines 199-200 in a worker.
WorkerPop(i) ==
    LET m == main.at IN
    /\ main.at \in Modalities
    /\ i \in DOMAIN task
    /\ task[i].pc = "check"
    /\ IF BufferFull(buffer[m], max_buffer_length)
       THEN /\ buffer' = [buffer EXCEPT ![m] = PopRest(@)]
            /\ task' = [task EXCEPT ![i].pc = "clear_ims", ![i].j = <<PopIndex(buffer[m])>>]
            /\ Wrote(i, <<"buffer", m, 0>>, FALSE)
       ELSE /\ task' = [task EXCEPT ![i].pc = "done"]
            /\ UNCHANGED <<buffer, writes>>
    /\ UNCHANGED <<cfgVars, listVars, ims, im_hw0, im_hw, npy, histVars, cursor, main>>

\* Line 201 in a worker, one store at a time.
WorkerClear(i) ==
    LET m == main.at
        j == task[i].j[1]
    IN /\ main.at \in Modalities
       /\ i \in DOMAIN task
       /\ \/ /\ task[i].pc = "clear_ims"
             /\ ims' = IF "ims" \in ClearedFields THEN [ims EXCEPT ![m][j] = None] ELSE ims
             /\ task' = [task EXCEPT ![i].pc = "clear_hw0"]
             /\ UNCHANGED <<im_hw0, im_hw>>
          \/ /\ task[i].pc = "clear_hw0"
             /\ im_hw0' = IF "im_hw0" \in ClearedFields
                          THEN [im_hw0 EXCEPT ![m][j] = None] ELSE im_hw0
             /\ task' = [task EXCEPT ![i].pc = "clear_hw"]
             /\ UNCHANGED <<ims, im_hw>>
          \/ /\ task[i].pc = "clear_hw"
             /\ im_hw' = IF "im_hw" \in ClearedFields
                         THEN [im_hw EXCEPT ![m][j] = None] ELSE im_hw
             /\ task' = [task EXCEPT ![i].pc = "done"]
             /\ UNCHANGED <<ims, im_hw0>>
       /\ Wrote(i, <<"slot", m, j>>, FALSE)
       /\ UNCHANGED <<cfgVars, listVars, buffer, npy, histVars, cursor, main>>

\* Lines 225-226 in a worker: fcn = cache_images_to_disk_*, the test.
WorkerExists(i) ==
    LET m == main.at IN
    /\ CanStart(i)
    /\ cache = "disk"
    /\ task' = [task EXCEPT ![i].pc = IF npy[npy_file(im_files[m][i])].st # "absent"
                                      THEN "done" ELSE "save"]
    /\ UNCHANGED <<cfgVars, listVars, cacheVars, npy, histVars, cursor, main, writes>>

\* Line 227 in a worker: np.save of the decoded picture.  np.save refuses
\* None (allow_pickle=False), so an undecodable picture raises.
WorkerSave(i) ==
    LET m == main.at
        f == im_files[m][i]
        fn == npy_file(f)
        im == imread(disk_hw, f)
    IN /\ main.at \in Modalities
       /\ i \in DOMAIN task
       /\ task[i].pc = "save"
       /\ IF im = None
          THEN /\ task' = [task EXCEPT ![i].pc = "raised"]
               /\ UNCHANGED <<npy, writes>>
          ELSE /\ task' = [task EXCEPT ![i].pc = "done"]
               /\ npy' = [npy EXCEPT ![fn] = NpyOf(im)]
               /\ Wrote(i, <<"npy", m, fn[2]>>, npy[fn].st # "absent")
       /\ UNCHANGED <<cfgVars, listVars, cacheVars, histVars, cursor, main>>

\* Lines 214-219 in the constructing thread: the next result of the
\* iterator; in "ram" mode line 218 stores its triple, one store at a time.
\* A call that raised raises here, and the constructor with it.
MainCollect ==
    LET m == main.at
        c == main.next
    IN /\ main.at \in Modalities
       /\ c < ni
       /\ task[c].pc \in {"done", "raised"}
       /\ IF task[c].pc = "raised"
          THEN /\ main' = [at |-> "failed", next |-> c, step |-> 0]
               /\ UNCHANGED cacheVars
          ELSE IF cache = "disk"
          THEN /\ main' = [main EXCEPT !.next = c + 1]
               /\ UNCHANGED cacheVars
          ELSE /\ main' = IF main.step = 2
                          THEN [main EXCEPT !.next = c + 1, !.step = 0]
                          ELSE [main EXCEPT !.step = @ + 1]
               /\ ims' = IF main.step = 0 THEN [ims EXCEPT ![m][c] = task[c].res[1]] ELSE ims
               /\ im_hw0' = IF main.step = 1
                            THEN [im_hw0 EXCEPT ![m][c] = task[c].res[2]] ELSE im_hw0
               /\ im_hw' = IF main.step = 2
                           THEN [im_hw EXCEPT ![m][c] = task[c].res[3]] ELSE im_hw
               /\ UNCHANGED buffer
       /\ UNCHANGED <<cfgVars, listVars, npy, histVars, cursor, task, writes>>

\* Lines 104-105: cache_images_rgb returns and cache_images_ir starts, or
\* cache_images_ir returns and the dataset is constructed.
MainNextPhase ==
    /\ main.at \in Modalities
    /\ main.next = ni
    /\ IF main.at = "rgb"
       THEN /\ main' = [at |-> "ir", next |-> 0, step |-> 0]
            /\ task' = NewTasks(ni)
       ELSE /\ main' = Constructed
            /\ task' = NoTasks
    /\ UNCHANGED <<cfgVars, listVars, cacheVars, npy, histVars, cursor, writes>>

\* The datasets of the eager specification.  Two pictures may share a stem
\* and differ in extension ("jpg" sorts before "png").
EagerFiles(n, same) ==
    [m \in Modalities |-> [k \in 0 .. n - 1 |->
        IF same THEN <<m, k \div 2, IF k % 2 = 0 THEN "jpg" ELSE "png">>
        ELSE <<m, k, "jpg">>]]

EagerShape(f) == IF f[3] = "jpg" THEN <<f[2] + 1, 2>> ELSE <<2, f[2] + 1>>

\* Every picture decodable; the preprocessed file of the first picture of
\* each modality present (left by an earlier run) or not.
EagerDisks(files) ==
    LET paths == UNION {Range(files[m]) : m \in Modalities} IN
    {[hw  |-> [f \in paths |-> EagerShape(f)],
      npy |-> [fn \in {npy_file(f) : f \in paths} |->
                 IF old /\ fn = npy_file(files[fn[1]][0])
                 THEN NpyOf(<<files[fn[1]][0], EagerShape(files[fn[1]][0])[1],
                              EagerShape(files[fn[1]][0])[2]>>)
                 ELSE NpyAbsent]]
     : old \in BOOLEAN}

\* Lines 96-105: cache is "ram" or "disk"; "ram" falls back to no caching
\* when check_cache_ram finds too little memory (mem_ok is its answer).
InitEager ==
    \E n \in 1 .. MaxNiEager, aug \in BOOLEAN, same \in BOOLEAN, mem_ok \in BOOLEAN,
       req \in {"ram", "disk"}, nt \in 1 .. MaxThreads :
        \E d \in EagerDisks(EagerFiles(n, same)) :
            /\ same => n > 1
            /\ n = 1 => nt = 1
            /\ ~mem_ok => req = "ram" /\ nt = 1 /\ ~same
            /\ InitDataset(n, 1, aug, EagerFiles(n, same), d.hw, d.npy)
            /\ cache = IF req = "ram" /\ ~mem_ok THEN "none" ELSE req
            /\ num_threads = nt
            /\ main = IF cache = "none" THEN Constructed ELSE [at |-> "rgb", next |-> 0, step |-> 0]
            /\ task = IF cache = "none" THEN NoTasks ELSE NewTasks(n)
            /\ writes = {}

Worker ==
    \E i \in DOMAIN task :
        \/ WorkerLoad(i)
        \/ WorkerStore(i)
        \/ WorkerAppend(i)
        \/ WorkerPop(i)
        \/ WorkerClear(i)
        \/ WorkerExists(i)
        \/ WorkerSave(i)

NextEager == Worker \/ MainCollect \/ MainNextPhase \/ Next

SpecEager == InitEager /\ [][NextEager]_vars

\* ------------------------------------------------ rectangular batches
\* An aspect ratio is kept as the fraction <<h, w>> it is the double of:
\* two doubles h / w of sides below LimbBase compare as their fractions do.
RatLT(x, y) == x[1] * y[2] < y[1] * x[2]
RatLE(x, y) == x[1] * y[2] <= y[1] * x[2]
One == <<1, 1>>

Perms(n) == {p \in [0 .. n - 1 -> 0 .. n - 1] : \A a, b \in 0 .. n - 1 : p[a] = p[b] => a = b}

\* An order of the indices in which ar descends.
ArgsortsDescending(ar) ==
    {p \in Perms(Cardinality(DOMAIN ar)) :
        \A a, b \in DOMAIN ar : a < b => RatLE(ar[p[b]], ar[p[a]])}

\* ar.argsort(): an order of the indices in which ar ascends.  numpy's
\* default sort is not stable, so equal ratios may come in either order.
Argsorts(ar) ==
    {p \in Perms(Cardinality(DOMAIN ar)) :
        \A a, b \in DOMAIN ar : a < b => RatLE(ar[p[a]], ar[p[b]])}

\* Lines 313-314 / 320-321: ar = s[:, 0] / s[:, 1] of the labels' shapes.
AspectRatios(ls) == [k \in DOMAIN ls |-> <<ls[k].shape[1], ls[k].shape[2]>>]

\* Lines 316-318 / 323-325: a list reordered by irect.
Reordered(list, irect) == [k \in DOMAIN list |-> list[irect[k]]]

\* Line 313 / 320: x.pop("shape") on every label.
Popped(ls) == [k \in DOMAIN ls |-> [ls[k] EXCEPT !.shape = None]]

\* Line 310: bi = floor(arange(ni) / batch_size)
BatchIndex(n, bs) == [k \in 0 .. n - 1 |-> k \div bs]

RatMin(S) == CHOOSE x \in S : \A y \in S : RatLE(x, y)
RatMax(S) == CHOOSE x \in S : \A y \in S : RatLE(y, x)

\* Lines 328-335: the shape of batch b from the ratios ar of its members.
BatchShape(ar, bi, b) ==
    LET ari == {ar[k] : k \in {k \in DOMAIN ar : bi[k] = b}}
        mini == RatMin(ari)
        maxi == RatMax(ari)
    IN IF RatLT(maxi, One) THEN <<FloatDiv(maxi[1], maxi[2]), FloatOne>>
       ELSE IF RatLT(One, mini) THEN <<FloatOne, FloatRecip(FloatDiv(mini[1], mini[2]))>>
       ELSE <<FloatOne, FloatOne>>

\* Line 337 without the final "* stride".
PixelSideUnscaled(x, sz, st, pd) ==
    FloatCeil(FloatAdd(FloatDivInt(FloatMulInt(sz, x), st), FloatOfFraction(pd)))

\* Line 337: ceil(x * imgsz / stride + pad).astype(int) * stride, in doubles
PixelSide(x, sz, st, pd) ==
    FloatCeil(FloatAdd(FloatDivInt(FloatMulInt(sz, x), st), FloatOfFraction(pd))) * st

\* The ratios that line 330 reads: the second assignment of ar (lines
\* 321, 325) has replaced the first (lines 314, 318).
RatiosForShapes(arRgb, arIr) == arIr

\* Lines 308-338: set_rectangle, with the two argsort results chosen.
set_rectangle(irRgb, irIr) ==
    LET bi == BatchIndex(ni, batch_size)
        nb == bi[ni - 1] + 1
        arRgb == Reordered(AspectRatios(labels["rgb"]), irRgb)
        arIr == Reordered(AspectRatios(labels["ir"]), irIr)
        ar == RatiosForShapes(arRgb, arIr)
    IN /\ im_files' = [rgb |-> Reordered(im_files["rgb"], irRgb),
                       ir  |-> Reordered(im_files["ir"], irIr)]
       /\ labels' = [rgb |-> Reordered(Popped(labels["rgb"]), irRgb),
                     ir  |-> Reordered(Popped(labels["ir"]), irIr)]
       /\ batch_shapes' = [b \in 0 .. nb - 1 |->
                              LET unit == BatchShape(ar, bi, b)
                              IN <<PixelSide(unit[1], imgsz, stride, pad),
                                   PixelSide(unit[2], imgsz, stride, pad)>>]
       /\ batch' = bi

\* Lines 87-108 of the constructor with rect = True and cache = False.
SetRectangle ==
    /\ main.at = "set_rectangle"
    /\ \E irRgb \in Argsorts(AspectRatios(labels["rgb"])) :
       \E irIr \in Argsorts(AspectRatios(labels["ir"])) :
           set_rectangle(irRgb, irIr)
    /\ main' = Constructed
    /\ UNCHANGED <<cfgVars, cacheVars, npy, histVars, cursor, task, writes>>

\* The shapes (h, w) of the pictures of a dataset with rectangular batches.
RectShapes == {<<1, 2>>, <<1, 3>>, <<2, 2>>, <<2, 1>>}

\* The dataset at line 87: rect = True, the labels carry the shapes of
\* their pictures, every picture is decodable and none is preprocessed.
RectDataset(n, bs, pd, sz, st, hwOf) ==
    /\ ni = n
    /\ batch_size = bs
    /\ augment = FALSE
    /\ imgsz = sz
    /\ max_buffer_length = MaxBufferLength(n, bs, FALSE)
    /\ im_files = PlainFiles(n)
    /\ orig_files = PlainFiles(n)
    /\ labels = LabelsOf(PlainFiles(n), hwOf)
    /\ disk_hw = hwOf
    /\ npy = [fn \in {npy_file(f) : f \in DOMAIN hwOf} |-> NpyAbsent]
    /\ ims = EmptySlots(n)
    /\ im_hw0 = EmptySlots(n)
    /\ im_hw = EmptySlots(n)
    /\ buffer = [m \in Modalities |-> <<>>]
    /\ rect = TRUE
    /\ batch = None
    /\ batch_shapes = None
    /\ stride = st
    /\ pad = pd
    /\ NoFileArguments
    /\ NoLabelArguments
    /\ ret = NoCall
    /\ first_ret = EmptySlots(n)
    /\ gone = [m \in Modalities |-> {}]
    /\ fresh_calls = [m \in Modalities |-> 0]
    /\ first_idx = [m \in Modalities |-> <<>>]
    /\ cursor = [m \in Modalities |-> 0]
    /\ cache = "none"
    /\ num_threads = 1
    /\ main = [at |-> "set_rectangle", next |-> 0, step |-> 0]
    /\ task = NoTasks
    /\ writes = {}

InitRect ==
    \E n \in 1 .. MaxNiRect, bs \in 1 .. MaxBatchRect, pd \in {<<0, 1>>, <<1, 2>>} :
        \E hwOf \in [UNION {Range(PlainFiles(n)[m]) : m \in Modalities} -> RectShapes] :
            RectDataset(n, bs, pd, ImgSz, Stride, hwOf)

NextRect == SetRectangle \/ Next

SpecRect == InitRect /\ [][NextRect]_vars

\* set_rectangle alone, for the least and the greatest size and every stride
\* within the bounds, without padding and with the default padding of 0.5,
\* on wide, square and tall pictures.
ShapePads == {<<0, 1>>, <<1, 2>>}
ShapeSizes == {1, ImgSz}
PictureShapes == {<<1, 2>>, <<2, 2>>, <<2, 1>>}

InitShapes ==
    \E n \in 1 .. MaxNiRect, bs \in 1 .. MaxBatchRect, pd \in ShapePads :
        \E sz \in ShapeSizes, st \in 1 .. Stride :
            \E hwOf \in [UNION {Range(PlainFiles(n)[m]) : m \in Modalities} -> PictureShapes] :
                RectDataset(n, bs, pd, sz, st, hwOf)

NextShapes == SetRectangle

SpecShapes == InitShapes /\ [][NextShapes]_vars

\* --------------------------------------------------- get_img_files
\* A string is a sequence of atoms: the separators "." and "/" and names
\* without a separator.  AtomOrder lists the atoms in the order of their
\* first characters; no two atoms begin with the same character, so the
\* atom-wise order of two strings is their character-wise order.
AtomOrder == <<".", "/", "JPG", "a", "b", "d", "jpg", "m", "txt">>
RankOf == [a \in Range(AtomOrder) |-> CHOOSE k \in DOMAIN AtomOrder : AtomOrder[k] = a]
Rank(a) == RankOf[a]

\* os.sep
Sep == "/"

\* IMG_FORMATS of ultralytics/data/utils.py, the two the model's files use.
IMG_FORMATS == {"jpg", "png"}

\* str.lower()
Lower(x) == [k \in DOMAIN x |-> IF x[k] = "JPG" THEN "jpg" ELSE x[k]]

\* str.startswith(prefix)
StartsWith(x, prefix) == Len(x) >= Len(prefix) /\ SubSeq(x, 1, Len(prefix)) = prefix

\* str.replace(old, new): every occurrence, left to right, not overlapping.
RECURSIVE Replace(_, _, _)
Replace(x, old, new) ==
    IF Len(x) < Len(old) THEN x
    ELSE IF StartsWith(x, old)
         THEN new \o Replace(SubSeq(x, Len(old) + 1, Len(x)), old, new)
         ELSE <<Head(x)>> \o Replace(Tail(x), old, new)

\* x.split(".")[-1]
LastSegment(x) ==
    LET dots == {k \in DOMAIN x : x[k] = "."}
    IN IF dots = {} THEN x
       ELSE SubSeq(x, (CHOOSE k \in dots : \A d \in dots : d <= k) + 1, Len(x))

\* Line 127: x.split(".")[-1].lower() in IMG_FORMATS
IsImage(x) ==
    LET seg == Lower(LastSegment(x))
    IN Len(seg) = 1 /\ seg[1] \in IMG_FORMATS

\* x < y for strings.
StrLess(x, y) ==
    \E k \in 1 .. Min2(Len(x), Len(y)) + 1 :
        /\ \A j \in 1 .. k - 1 : x[j] = y[j]
        /\ \/ k > Len(x) /\ k <= Len(y)
           \/ k <= Len(x) /\ k <= Len(y) /\ Rank(x[k]) < Rank(y[k])

RECURSIVE Insert(_, _)
Insert(s, x) ==
    IF s = <<>> THEN <<x>>
    ELSE IF StrLess(x, Head(s)) THEN <<x>> \o s
    ELSE <<Head(s)>> \o Insert(Tail(s), x)

Unsorted(s) == s

\* sorted(...) of line 127
RECURSIVE Sorted(_)
Sorted(s) == IF s = <<>> THEN <<>> ELSE Insert(Sorted(SubSeq(s, 1, Len(s) - 1)), s[Len(s)])

\* [x for x in s if keep(x)]
RECURSIVE Images(_)
Images(s) ==
    IF s = <<>> THEN <<>>
    ELSE (IF IsImage(Head(s)) THEN <<Replace(Head(s), <<"/">>, <<Sep>>)>> ELSE <<>>)
         \o Images(Tail(s))

\* The filesystem of get_img_files: the directory d, the manifest d/m.txt
\* in it, and a path that does not exist.
ImageDir == <<"d">>
ManifestFile == <<"d", "/", "m", ".", "txt">>
Missing == <<"a">>
Entries == {ImageDir, ManifestFile, Missing}

\* The files the directory may hold beside the manifest.
DirFiles == {<<"d", "/", "a", ".", "jpg">>, <<"d", "/", "b", ".", "JPG">>}

\* The lines a manifest may hold.
ManifestLines == {<<".", "/", "a", ".", "jpg">>, <<"d", "/", "a", ".", "jpg">>,
                  <<".", "/", "a", ".", "txt">>}

\* Path.is_dir() / Path.is_file()
is_dir(p) == p = ImageDir
is_file(p) == p = ManifestFile \/ p \in disk

\* str(p.parent)
Parent(p) ==
    LET seps == {k \in DOMAIN p : p[k] = "/"}
    IN IF seps = {} THEN <<".">>
       ELSE SubSeq(p, 1, (CHOOSE k \in seps : \A d \in seps : d <= k) - 1)

\* The orders in which a set of strings can be listed.
Listings(S) ==
    {[k \in 1 .. Cardinality(S) |-> order[k - 1]] :
        order \in {o \in [0 .. Cardinality(S) - 1 -> S] :
                      \A a, b \in DOMAIN o : o[a] = o[b] => a = b}}

\* Line 117: glob.glob(str(p / "**" / "*.*"), recursive=True): the files
\* below p whose name holds a ".", in the order the directory is scanned.
Globs(p) ==
    Listings({f \in disk \cup {ManifestFile} :
                 StartsWith(f, p \o <<"/">>) /\ \E k \in DOMAIN f : f[k] = "."})

\* Lines 120-123: the lines of the manifest, "./" replaced by its parent.
ManifestPaths(p) ==
    LET parent == Parent(p) \o <<Sep>>
    IN [k \in DOMAIN manifest |->
           IF StartsWith(manifest[k], <<".", "/">>)
           THEN Replace(manifest[k], <<".", "/">>, parent)
           ELSE manifest[k]]

\* Line 114: img_path if isinstance(img_path, list) else [img_path]
AsList(ip) == IF ip[1] = "list" THEN ip[2] ELSE <<ip[2]>>

\* Lines 114-126: f after the loop over the entries ps, globbed[k] being
\* the listing glob returns for entry k; None if an entry does not exist.
RECURSIVE Collect(_, _)
Collect(ps, globbed) ==
    IF ps = <<>> THEN <<<<>>>>
    ELSE LET p == ps[Len(ps)]
             before == Collect(SubSeq(ps, 1, Len(ps) - 1), globbed)
         IN IF before = None THEN None
            ELSE IF is_dir(p) THEN <<before[1] \o globbed[Len(ps)]>>
            ELSE IF is_file(p) THEN <<before[1] \o ManifestPaths(p)>>
            ELSE None

RoundHalfUp(num, den) == (2 * num + den) \div (2 * den)

\* Python's round() of the fraction num / den: halves go to the even side.
Round(num, den) ==
    LET q == num \div den
        r == num % den
    IN IF 2 * r < den THEN q
       ELSE IF 2 * r > den THEN q + 1
       ELSE IF q % 2 = 0 THEN q ELSE q + 1

\* Lines 112-131: the sorted list, or None when the try block raised.
Found(ip, globbed) ==
    LET f == Collect(AsList(ip), globbed)
    IN IF f = None THEN None
       ELSE IF Images(f[1]) = <<>> THEN None
       ELSE <<Sorted(Images(f[1]))>>

\* Lines 132-133: im_files[: round(len(im_files) * self.fraction)]
Truncated(fs, fr) ==
    IF fr[1] < fr[2] THEN SubSeq(fs, 1, Round(Len(fs) * fr[1], fr[2])) ELSE fs

\* Lines 110-134: get_img_files
get_img_files_result(ip, fr, globbed) ==
    LET found == Found(ip, globbed)
    IN IF found = None THEN [raised |-> TRUE, files |-> <<>>]
       ELSE [raised |-> FALSE, files |-> Truncated(found[1], fr)]

get_img_files ==
    /\ main.at = "get_img_files"
    /\ \E globbed \in {g \in [DOMAIN AsList(img_path) -> Globs(ImageDir) \cup {<<>>}] :
                           \A k \in DOMAIN g :
                               IF is_dir(AsList(img_path)[k]) THEN g[k] \in Globs(ImageDir)
                               ELSE g[k] = <<>>} :
       \E r \in {get_img_files_result(img_path, fraction, globbed)} :
           ret' = [op |-> "get_img_files", raised |-> r.raised, files |-> r.files,
                   calls |-> IF ret.op = "init" THEN 1 ELSE 2,
                   same |-> ret.op = "init" \/ (ret.same /\ ret.raised = r.raised
                                                         /\ ret.files = r.files)]
    /\ UNCHANGED <<cfgVars, listVars, cacheVars, npy, first_ret, gone, fresh_calls,
                   first_idx, cursor, poolVars>>

\* Before the constructor has read anything: no images, no cache.
Unconstructed(at) ==
    /\ ni = 0
    /\ batch_size = 1
    /\ augment = FALSE
    /\ imgsz = ImgSz
    /\ max_buffer_length = 0
    /\ im_files = PlainFiles(0)
    /\ orig_files = PlainFiles(0)
    /\ disk_hw = <<>>
    /\ npy = <<>>
    /\ ims = EmptySlots(0)
    /\ im_hw0 = EmptySlots(0)
    /\ im_hw = EmptySlots(0)
    /\ buffer = [m \in Modalities |-> <<>>]
    /\ rect = FALSE
    /\ batch = None
    /\ batch_shapes = None
    /\ stride = Stride
    /\ pad = <<1, 2>>
    /\ ret = NoCall
    /\ first_ret = EmptySlots(0)
    /\ gone = [m \in Modalities |-> {}]
    /\ fresh_calls = [m \in Modalities |-> 0]
    /\ first_idx = [m \in Modalities |-> <<>>]
    /\ cursor = [m \in Modalities |-> 0]
    /\ cache = "none"
    /\ num_threads = 1
    /\ main = [at |-> at, next |-> 0, step |-> 0]
    /\ task = NoTasks
    /\ writes = {}

SeqsUpTo(S, n) == UNION {[1 .. k -> S] : k \in 0 .. n}

ImgPaths ==
    {<<"one", p>> : p \in Entries}
    \cup {<<"list", ps>> : ps \in SeqsUpTo(Entries, MaxInputs) \ {<<>>}}

Fractions == {<<k, FractionDen>> : k \in 1 .. FractionDen}

InitFiles ==
    /\ Unconstructed("get_img_files")
    /\ labels = PlainFiles(0)
    /\ NoLabelArguments
    /\ img_path \in ImgPaths
    /\ fraction \in Fractions
    /\ disk \in IF ImageDir \in Range(AsList(img_path)) THEN SUBSET DirFiles ELSE {{}}
    /\ manifest \in IF ManifestFile \in Range(AsList(img_path))
                    THEN SeqsUpTo(ManifestLines, MaxLines) ELSE {<<>>}

NextFiles == get_img_files

SpecFiles == InitFiles /\ [][NextFiles]_vars

\* ---------------------------------------------------- update_labels
\* An array or list of per-object rows is a sequence; a label record holds
\* cls (the class id of each object: the n x 1 array), bboxes, segments (a
\* list, empty when the dataset has none) and keypoints (None or <<rows>>).

\* Line 145 / 160: j = (cls == include_class_array).any(1)
Mask(cls, allowed) == [k \in DOMAIN cls |-> cls[k] \in allowed]

\* rows[j] for a boolean mask j, and [rows[si] for si, idx in enumerate(j) if idx]
RECURSIVE Select(_, _)
Select(rows, j) ==
    IF j = <<>> THEN <<>>
    ELSE Select(SubSeq(rows, 1, Len(j) - 1), SubSeq(j, 1, Len(j) - 1))
         \o (IF j[Len(j)] THEN <<rows[Len(j)]>> ELSE <<>>)

KeepSegments(segments, j) == segments

\* Lines 148-149 / 163-164
FilterSegments(segments, j) == IF segments # <<>> THEN Select(segments, j) ELSE segments

\* Lines 150-151 / 165-166
FilterKeypoints(keypoints, j) ==
    IF keypoints # None THEN <<Select(keypoints[1], j)>> ELSE keypoints

\* Lines 140-151 / 155-166
FilterLabel(l, allowed) ==
    LET j == Mask(l.cls, allowed)
    IN [cls |-> Select(l.cls, j), bboxes |-> Select(l.bboxes, j),
        segments |-> FilterSegments(l.segments, j),
        keypoints |-> FilterKeypoints(l.keypoints, j)]

\* Lines 152-153 / 167-168: self.labels[i]["cls"][:, 0] = 0
SingleCls(l) == [l EXCEPT !.cls = [k \in DOMAIN l.cls |-> 0]]

\* The body of each of the two loops of lines 139-168.
UpdateLabel(l, inc, single) ==
    LET filtered == IF inc # None THEN FilterLabel(l, inc[1]) ELSE l
    IN IF single THEN SingleCls(filtered) ELSE filtered

\* Lines 136-168: update_labels
update_labels ==
    /\ main.at = "update_labels"
    /\ labels' = [m \in Modalities |-> [i \in DOMAIN labels[m] |->
                     UpdateLabel(labels[m][i], include_class, single_cls)]]
    /\ main' = [main EXCEPT !.at = "updated"]
    /\ UNCHANGED <<cfgVars, im_files, batch, batch_shapes, cacheVars, npy, histVars,
                   cursor, task, writes>>

Classes == 0 .. MaxClass

\* The label of a picture whose objects have the class ids cls.
LabelOf(m, cls, segs, kpts) ==
    [cls |-> cls,
     bboxes |-> [k \in DOMAIN cls |-> <<"bbox", m, k>>],
     segments |-> IF segs THEN [k \in DOMAIN cls |-> <<"segment", m, k>>] ELSE <<>>,
     keypoints |-> IF kpts THEN <<[k \in DOMAIN cls |-> <<"keypoints", m, k>>]>> ELSE None]

\* One picture per modality; the dataset has segments or not and keypoints
\* or not, in both modalities alike.
InitLabels ==
    /\ Unconstructed("update_labels")
    /\ NoFileArguments
    /\ include_class \in {None} \cup {<<allowed>> : allowed \in SUBSET Classes}
    /\ single_cls \in BOOLEAN
    /\ \E segs \in BOOLEAN, kpts \in BOOLEAN :
       \E cr \in SeqsUpTo(Classes, MaxRows), ci \in SeqsUpTo(Classes, MaxRows) :
           labels = [rgb |-> <<LabelOf("rgb", cr, segs, kpts)>>,
                     ir  |-> <<LabelOf("ir", ci, segs, kpts)>>]
    /\ labels0 = labels

NextLabels == update_labels

SpecLabels == InitLabels /\ [][NextLabels]_vars

\* ------------------------------------------------------------ resizing
\* The shapes (h, w) of the pictures that are resized: every small shape,
\* and the shapes twice as wide as high or twice as high as wide.
ResizeShapes ==
    {<<a, b>> : a, b \in 1 .. MaxSmallSide}
    \cup {<<a, 2 * a>> : a \in 1 .. MaxHalfSide}
    \cup {<<2 * a, a>> : a \in 1 .. MaxHalfSide}

\* A constructed dataset of one pair, both pictures of one shape, without
\* augmentation, preprocessed files or rectangular batches.
InitResize ==
    \E sz \in 1 .. MaxResizeSz, hw \in ResizeShapes :
        /\ ni = 1
        /\ batch_size = 1
        /\ augment = FALSE
        /\ imgsz = sz
        /\ max_buffer_length = MaxBufferLength(1, 1, FALSE)
        /\ im_files = PlainFiles(1)
        /\ orig_files = PlainFiles(1)
        /\ disk_hw = [f \in UNION {Range(PlainFiles(1)[m]) : m \in Modalities} |-> hw]
        /\ labels = LabelsOf(PlainFiles(1), disk_hw)
        /\ npy = [fn \in {npy_file(f) : f \in DOMAIN disk_hw} |-> NpyAbsent]
        /\ ims = EmptySlots(1)
        /\ im_hw0 = EmptySlots(1)
        /\ im_hw = EmptySlots(1)
        /\ buffer = [m \in Modalities |-> <<>>]
        /\ rect = FALSE
        /\ batch = None
        /\ batch_shapes = None
        /\ stride = Stride
        /\ pad = <<1, 2>>
        /\ NoFileArguments
        /\ NoLabelArguments
        /\ ret = NoCall
        /\ first_ret = EmptySlots(1)
        /\ gone = [m \in Modalities |-> {}]
        /\ fresh_calls = [m \in Modalities |-> 0]
        /\ first_idx = [m \in Modalities |-> <<>>]
        /\ cursor = [m \in Modalities |-> 0]
        /\ cache = "none"
        /\ num_threads = 1
        /\ main = Constructed
        /\ task = NoTasks
        /\ writes = {}

NextResize == load_image_rgb \/ load_image_ir

SpecResize == InitResize /\ [][NextResize]_vars

\* --------------------------------------------------------- properties
Resident(m) == {i \in Indices : ims[m][i] # None}
Loaded(m) == {i \in Indices : first_ret[m][i] # None}

\* The case of C1: augmentation, a dataset larger than the buffer bound, and
\* exactly max_buffer_length + 1 loads so far, each of another index.
C1_Case(m) ==
    /\ augment
    /\ ni > max_buffer_length
    /\ fresh_calls[m] = max_buffer_length + 1

\* C1 as stated: after max_buffer_length + 1 loads of distinct indices from an
\* empty cache, exactly one loaded index is absent, the first one loaded, and
\* every other loaded index is resident.
C1_ExactlyOneEvicted ==
    \A m \in Modalities :
        C1_Case(m) =>
            /\ Loaded(m) \ Resident(m) = {first_idx[m][1]}
            /\ Cardinality(Loaded(m)) = max_buffer_length + 1

\* C1 amended: after max_buffer_length + 1 loads of distinct indices from an
\* empty cache, exactly two loaded indices are absent, the two loaded first,
\* and every other loaded index is resident.
C1_ExactlyTwoEvicted ==
    \A m \in Modalities :
        C1_Case(m) =>
            /\ Loaded(m) \ Resident(m) = {first_idx[m][1], first_idx[m][2]}
            /\ Cardinality(Loaded(m) \ Resident(m)) = 2
            /\ Cardinality(Loaded(m)) = max_buffer_length + 1
            /\ Resident(m) \subseteq Loaded(m)

C1_Witness == \E m \in Modalities : C1_Case(m)

\* C2: in single-threaded use without eager caching, each modality's ring
\* buffer and its number of resident slots never exceed
\* min(ni, 8 * batch_size, 1000) with augmentation and 0 without, and an
\* eviction removes the index that entered the buffer earliest.
C2_Bound == IF augment THEN Min2(ni, Min2(BufferFactor * batch_size, BufferCap)) ELSE 0

C2_BufferBounded ==
    \A m \in Modalities :
        /\ Len(buffer[m]) <= C2_Bound
        /\ Cardinality(Resident(m)) <= C2_Bound
        /\ ret.info[m].evicted # None => ret.info[m].evicted = ret.info[m].oldest

C2_Witness ==
    \E m \in Modalities :
        /\ ret.info[m].evicted # None
        /\ C2_Bound = BufferFactor * batch_size
        /\ C2_Bound < ni
        /\ Len(buffer[m]) > 1
        /\ ret.info[m].evicted[1] # ret.i

\* C6: a load of an index whose slot was resident and was then evicted decodes
\* the image again and returns the triple the first load of that index
\* returned, with no absent part; no load returns an absent image or shape.
C6_ReloadAfterEviction ==
    \A m \in Modalities :
        LET x == ret.info[m] IN
        /\ (x.called /\ ~x.raised) =>
               /\ Len(x.triple) = 3
               /\ x.triple[1] # None
               /\ x.triple[2] # None
               /\ x.triple[3] # None
        /\ (x.called /\ x.reload) =>
               /\ ~x.raised
               /\ x.via # "ram"
               /\ x.triple = first_ret[m][ret.i]

C6_Witness ==
    \E m \in Modalities :
        /\ ret.info[m].called
        /\ ret.info[m].reload
        /\ ret.info[m].via # "ram"
        /\ ret.info[m].triple = first_ret[m][ret.i]

\* C3 as stated: once eager caching in "ram" mode has completed, whatever the
\* interleaving of the pool and the constructing thread and whatever
\* augment, every slot of both modalities is resident, and stays so under
\* every later load and get.
C3_EagerRamResident ==
    (cache = "ram" /\ main.at = "done") =>
        \A m \in Modalities : \A i \in Indices : ims[m][i] # None

\* C4 as stated: in the pool phase the call for index i writes no cache slot
\* but slot i, and no cache slot or ring buffer is written by two calls.
C4_WorkersDisjoint ==
    \A wr \in writes :
        wr.loc[1] \in {"slot", "buffer"} =>
            /\ wr.loc[1] = "slot" => wr.loc[3] = wr.w
            /\ \A w2 \in writes : w2.loc = wr.loc => w2.w = wr.w

\* The triple of a load of index i that decodes im_files[m][i] itself.
DirectTriple(m, i) ==
    LET im0 == imread(disk_hw, im_files[m][i])
        im == Resized(im0, imgsz, TRUE)
    IN <<im, shape(im0), shape(im)>>

\* C7 as stated: after eager caching in "disk" mode, for any set of image
\* paths, a load served by the preprocessed file returns the triple of a
\* direct decode of im_files[i], and no preprocessed file that was already
\* present is written again.
C7_DiskRoundTrip ==
    cache = "disk" =>
        /\ \A m \in Modalities :
               (ret.info[m].called /\ ret.info[m].via = "npy" /\ ~ret.info[m].raised) =>
                   ret.info[m].triple = DirectTriple(m, ret.i)
        /\ \A wr \in writes : wr.loc[1] = "npy" => ~wr.over

\* The pair a path belongs to: its index in the sorted path list that
\* get_img_files returned.
PairOf(m, f) == CHOOSE k \in DOMAIN orig_files[m] : orig_files[m][k] = f

\* C5 as stated: the record get(index) returns holds the RGB path and image
\* and the IR path and image of one pair, also with rectangular batching and
\* whatever the shapes of the pictures.
C5_PairedRecord ==
    (ret.op = "get" /\ ~ret.raised) =>
        /\ PairOf("rgb", ret.label.im_file) = PairOf("ir", ret.label.im_file_ir)
        /\ PairOf("rgb", ret.label.img_rgb[1]) = PairOf("ir", ret.label.img_ir[1])
        /\ PairOf("rgb", ret.label.im_file) = PairOf("rgb", ret.label.img_rgb[1])

\* C9 as stated: whenever get_img_files returns without raising, the list it
\* returns is not empty, whatever the path specification and the fraction.
C9_NonEmptyReturn ==
    (ret.op = "get_img_files" /\ ~ret.raised) => ret.files # <<>>

\* How often x occurs in the list s.
Count(s, x) == Cardinality({k \in DOMAIN s : s[k] = x})

\* The occurrences of the image path x in the inputs: the directory entries
\* that hold it and the manifest lines, of every manifest entry, that name it.
Yields(x) ==
    LET ps == AsList(img_path)
    IN {<<k, 0>> : k \in {k \in DOMAIN ps : is_dir(ps[k]) /\ x \in disk}}
       \cup {<<k, j>> : k \in {k \in DOMAIN ps : ps[k] = ManifestFile},
                        j \in {j \in DOMAIN manifest :
                                  ManifestPaths(ManifestFile)[j] = x}}

Ascending(s) == \A k \in 1 .. Len(s) - 1 : ~StrLess(s[k + 1], s[k])

\* C10 as stated: get_img_files returns a lexicographically sorted list
\* without duplicate paths, also when an image file is reachable through
\* more than one input.
C10_SortedNoDuplicates ==
    (ret.op = "get_img_files" /\ ~ret.raised) =>
        /\ Ascending(ret.files)
        /\ \A j, k \in DOMAIN ret.files : j # k => ret.files[j] # ret.files[k]

\* C10, amended: get_img_files returns a lexicographically sorted list in
\* which a path occurs at most as often as the inputs yield it, and exactly
\* as often when the whole list is kept (fraction = 1).
C10_SortedWithRepeats ==
    (ret.op = "get_img_files" /\ ~ret.raised) =>
        /\ Ascending(ret.files)
        /\ \A x \in Range(ret.files) : Count(ret.files, x) <= Cardinality(Yields(x))
        /\ fraction[1] = fraction[2] =>
               \A x \in DirFiles \cup Range(ManifestPaths(ManifestFile)) :
                   IsImage(x) => Count(ret.files, x) = Cardinality(Yields(x))

\* The directory and a manifest naming a file of it were both given, and the
\* file is twice in the returned list.
C10_Witness ==
    /\ ret.op = "get_img_files"
    /\ ~ret.raised
    /\ img_path = <<"list", <<ImageDir, ManifestFile>>>>
    /\ \E j, k \in DOMAIN ret.files : j < k /\ ret.files[j] = ret.files[k]

\* The rows of a label whose class id is allowed, ascending.
Kept(before) == {k \in DOMAIN before.cls : before.cls[k] \in include_class[1]}
KeptAt(before, p) ==
    CHOOSE k \in Kept(before) : Cardinality({j \in Kept(before) : j < k}) = p - 1
KeptOf(before, rows) ==
    [p \in 1 .. Cardinality(Kept(before)) |-> rows[KeptAt(before, p)]]

\* C8: after update_labels with an allow-list, in every label record of both
\* modalities cls, bboxes, segments (when non-empty) and keypoints (when not
\* None) have equal row counts and each holds exactly the rows whose class id
\* is in the allow-list, in their original order; in single-class mode the
\* class ids of these rows are then overwritten by 0.
C8_SameMask ==
    (main.at = "updated" /\ include_class # None) =>
        \A m \in Modalities : \A i \in DOMAIN labels[m] :
            LET before == labels0[m][i]
                after == labels[m][i]
            IN /\ Len(after.cls) = Len(after.bboxes)
               /\ after.segments # <<>> => Len(after.segments) = Len(after.cls)
               /\ after.keypoints # None => Len(after.keypoints[1]) = Len(after.cls)
               /\ Len(after.cls) = Cardinality(Kept(before))
               /\ after.cls = IF single_cls THEN [p \in 1 .. Len(after.cls) |-> 0]
                              ELSE KeptOf(before, before.cls)
               /\ after.bboxes = KeptOf(before, before.bboxes)
               /\ after.segments = IF before.segments # <<>>
                                   THEN KeptOf(before, before.segments) ELSE <<>>
               /\ after.keypoints = IF before.keypoints # None
                                    THEN <<KeptOf(before, before.keypoints[1])>> ELSE None

\* A record with segments and keypoints lost its first object to the
\* allow-list and kept its second.
C8_Witness ==
    /\ main.at = "updated"
    /\ include_class # None
    /\ \E m \in Modalities :
           /\ Len(labels0[m][1].cls) = 2
           /\ labels0[m][1].segments # <<>>
           /\ labels0[m][1].keypoints # None
           /\ labels0[m][1].cls[1] \notin include_class[1]
           /\ labels0[m][1].cls[2] \in include_class[1]
           /\ Len(labels[m][1].segments) = 1

\* The image paths the inputs can yield, and how many they yield in all.
Yielded == {x \in DirFiles \cup Range(ManifestPaths(ManifestFile)) : IsImage(x)}
YieldCount(S) == Cardinality(UNION {{<<x, y>> : y \in Yields(x)} : x \in S})

\* round(n * fraction) said without the model's Round: the integer nearest
\* to n * fraction, the even one of the two when it lies halfway.
Nearest(n, fr) ==
    CHOOSE k \in 0 .. n :
        /\ 2 * fr[2] * k - 2 * n * fr[1] \in -fr[2] .. fr[2]
        /\ 2 * fr[2] * k - 2 * n * fr[1] \in {-fr[2], fr[2]} => k % 2 = 0

\* C11: with fraction < 1 and n matching image files, get_img_files returns
\* exactly the first round(n * fraction) entries of the sorted list (round
\* being Python's, halves to the even side), the same list on every call.
C11_FractionPrefix ==
    (ret.op = "get_img_files" /\ ~ret.raised /\ fraction[1] < fraction[2]) =>
        LET k == Nearest(YieldCount(Yielded), fraction)
        IN /\ Len(ret.files) = k
           /\ Ascending(ret.files)
           /\ \A x \in Yielded :
                  Count(ret.files, x) =
                      Max2(0, Min2(Cardinality(Yields(x)),
                                   k - YieldCount({z \in Yielded : StrLess(z, x)})))
           /\ ret.same

\* Three images were found and half of them asked for: the second call
\* returned, as the first had, the first two.
C11_Witness ==
    /\ ret.op = "get_img_files"
    /\ ~ret.raised
    /\ ret.calls = 2
    /\ fraction = <<2, 4>>
    /\ YieldCount(Yielded) = 3
    /\ Len(ret.files) = 2

\* The call that made this step loaded index ret'.i of modality m.
Called(m) == ret'.op \in {"load", "get"} /\ ret'.info[m].called

CacheUnchanged(m) ==
    /\ ims'[m] = ims[m]
    /\ im_hw0'[m] = im_hw0[m]
    /\ im_hw'[m] = im_hw[m]
    /\ buffer'[m] = buffer[m]

\* C12: a load of an index whose picture cannot be decoded and whose
\* preprocessed file is missing or unreadable raises "Image Not Found" with
\* the path, and leaves the slots and the ring buffer of its modality as
\* they were.
C12_FailedLoadKeepsCache ==
    [][\A m \in Modalities :
          LET f == im_files[m][ret'.i] IN
          (/\ Called(m)
           /\ ims[m][ret'.i] = None
           /\ disk_hw[f] = None
           /\ npy[npy_file(f)].st # "ok")
          => /\ ret'.info[m].raised
             /\ ret'.raised
             /\ ret'.info[m].error = <<"Image Not Found", f>>
             /\ CacheUnchanged(m)]_vars

\* A load raised while another index of its modality was in the cache.
C12_Witness ==
    \E m \in Modalities :
        /\ ret.info[m].called
        /\ ret.info[m].raised
        /\ ret.info[m].error = <<"Image Not Found", im_files[m][ret.i]>>
        /\ buffer[m] # <<>>
        /\ \E i \in Indices : ims[m][i] # None

\* What load(i) returns when index i has no preprocessed file.
TripleWithoutNpy(m, i) ==
    load_image(Cache(m), disk_hw, [npy EXCEPT ![npy_file(im_files[m][i])] = NpyAbsent],
               im_files[m][i], i, TRUE, imgsz, augment, max_buffer_length).triple

\* C13: a load of an index whose preprocessed file exists but cannot be read
\* deletes that file and decodes the original path instead; when the decode
\* succeeds the call returns the triple a load without preprocessed file
\* returns, and in every case the file is gone afterwards.
C13_CorruptNpyFallback ==
    [][\A m \in Modalities :
          LET f == im_files[m][ret'.i] IN
          (/\ Called(m)
           /\ ims[m][ret'.i] = None
           /\ npy[npy_file(f)].st = "corrupt")
          => /\ npy'[npy_file(f)].st = "absent"
             /\ ret'.info[m].via = "fallback"
             /\ ret'.info[m].raised = (disk_hw[f] = None)
             /\ disk_hw[f] # None =>
                    /\ ret'.info[m].triple = TripleWithoutNpy(m, ret'.i)
                    /\ ret'.info[m].triple[1][1] = f]_vars

\* A load met an unreadable preprocessed file, decoded the picture and
\* returned it; the file is gone.
C13_Witness ==
    \E m \in Modalities :
        /\ ret.info[m].called
        /\ ret.info[m].via = "fallback"
        /\ ~ret.info[m].raised
        /\ ret.info[m].triple # None
        /\ npy[npy_file(im_files[m][ret.i])].st = "absent"

\* C14 as stated: in rect mode the longer side of the resized image is
\* imgsz, its shorter side is ceil(shorter * imgsz / longer) and both are at
\* most imgsz, whatever the original shape and imgsz.
C14_RectResize ==
    \A m \in Modalities :
        (ret.op = "load" /\ ret.info[m].called /\ ~ret.info[m].raised) =>
            LET hw0 == ret.info[m].triple[2]
                hw == ret.info[m].triple[3]
                long == Max2(hw0[1], hw0[2])
                short == Min2(hw0[1], hw0[2])
            IN /\ Max2(hw[1], hw[2]) = imgsz
               /\ Min2(hw[1], hw[2]) = CeilExact(short, imgsz, long)
               /\ hw[1] <= imgsz /\ hw[2] <= imgsz
               /\ hw0[1] <= hw0[2] => hw[1] <= hw[2]
               /\ hw0[2] <= hw0[1] => hw[2] <= hw[1]
               /\ long = imgsz => hw = hw0

\* C17: a load of an index whose slot is resident returns the stored triple
\* and leaves every slot and the ring buffer of its modality unchanged: the
\* index is not appended again and keeps its place in the buffer.
C17_HitIsPure ==
    [][\A m \in Modalities :
          (Called(m) /\ ims[m][ret'.i] # None)
          => /\ ~ret'.info[m].raised
             /\ ret'.info[m].via = "ram"
             /\ ret'.info[m].evicted = None
             /\ ret'.info[m].triple = <<ims[m][ret'.i], im_hw0[m][ret'.i], im_hw[m][ret'.i]>>
             /\ CacheUnchanged(m)]_vars

\* The oldest index of a buffer of several was loaded again, from RAM, and
\* is still the oldest.
C17_Witness ==
    \E m \in Modalities :
        /\ ret.op = "load"
        /\ ret.info[m].called
        /\ ret.info[m].via = "ram"
        /\ Len(buffer[m]) >= 2
        /\ Head(buffer[m]) = ret.i

\* C18: without eager caching the ring buffer of a modality holds no index
\* twice, holds exactly the indices whose slot is resident, and the three
\* fields of a slot are all absent or all present.
C18_BufferIsResidentSet ==
    \A m \in Modalities :
        /\ \A j, k \in 1 .. Len(buffer[m]) : j # k => buffer[m][j] # buffer[m][k]
        /\ Range(buffer[m]) = Resident(m)
        /\ \A i \in Indices :
               /\ (ims[m][i] = None) = (im_hw0[m][i] = None)
               /\ (ims[m][i] = None) = (im_hw[m][i] = None)

\* Several indices are in the buffer and an evicted one is not.
C18_Witness ==
    \E m \in Modalities :
        /\ ret.op \in {"load", "get"}
        /\ Len(buffer[m]) >= 2
        /\ gone[m] # {}
        /\ \A i \in gone[m] : ims[m][i] = None

SameCaches(b, x) ==
    /\ b["rgb"] = b["ir"]
    /\ \A i \in Indices : (x["rgb"][i] = None) = (x["ir"][i] = None)

\* C20: without eager caching the two caches start out alike and every
\* get(index) that returns keeps them alike, so after any sequence of such
\* calls buffer_rgb and buffer_ir hold the same indices in the same order
\* and an RGB slot is resident exactly when the IR slot is.
C20_CachesAlike ==
    [][/\ ret.op = "init" => SameCaches(buffer, ims)
       /\ (SameCaches(buffer, ims) /\ ret'.op = "get" /\ ~ret'.raised)
              => SameCaches(buffer', ims')]_vars

\* A get returned after the buffers had filled and evicted, and the two
\* caches are alike.
C20_Witness ==
    /\ ret.op = "get"
    /\ ~ret.raised
    /\ ret.info["rgb"].evicted # None
    /\ ret.info["ir"].evicted # None
    /\ Len(buffer["rgb"]) >= 2
    /\ SameCaches(buffer, ims)

\* The batch shape of line 337 for batch b, had lines 328-335 read the
\* aspect ratios of the RGB pictures in their order after set_rectangle.
RgbRatios == [k \in DOMAIN im_files["rgb"] |->
                 <<disk_hw[im_files["rgb"][k]][1], disk_hw[im_files["rgb"][k]][2]>>]
RgbBatchShape(b) ==
    <<PixelSide(BatchShape(RgbRatios, batch, b)[1], imgsz, stride, pad),
      PixelSide(BatchShape(RgbRatios, batch, b)[2], imgsz, stride, pad)>>

\* C15 as stated: after set_rectangle the rect_shape of the record that
\* get(index) returns is the pixel shape of index's batch computed from the
\* least and the greatest aspect ratio of the RGB pictures of that batch.
C15_RectShapeFromRgb ==
    (ret.op = "get" /\ ~ret.raised /\ rect) =>
        ret.label.rect_shape = RgbBatchShape(batch[ret.i])

\* C16: once set_rectangle has run, the height and the width of every batch
\* shape are positive integer multiples of stride, for every imgsz, stride
\* and pad within the bounds.
C16_StrideAligned ==
    batch_shapes # None =>
        \A b \in DOMAIN batch_shapes : \A d \in 1 .. 2 :
            /\ batch_shapes[b][d] > 0
            /\ batch_shapes[b][d] % stride = 0

\* set_rectangle has produced a batch that is not square, of sides that are
\* proper multiples of a stride above 1.
C16_Witness ==
    /\ batch_shapes # None
    /\ stride > 1
    /\ \E b \in DOMAIN batch_shapes :
           /\ batch_shapes[b][1] # batch_shapes[b][2]
           /\ batch_shapes[b][1] > stride
           /\ batch_shapes[b][2] >= stride

\* The path a label belongs to.
LabelPath(m, l) == IF m = "rgb" THEN l.im_file ELSE l.im_file_ir
RatioOf(f) == <<disk_hw[f][1], disk_hw[f][2]>>

\* C19: set_rectangle leaves each modality's path list a permutation of what
\* it was and its label list the same permutation of its labels, so the
\* label at every position belongs to the path there, and the entries are
\* in ascending order of aspect ratio.
C19_OnePermutation ==
    [][main.at = "set_rectangle" =>
          \A m \in Modalities :
              /\ \E p \in Perms(ni) :
                     /\ \A k \in Indices : im_files'[m][k] = im_files[m][p[k]]
                     /\ \A k \in Indices :
                            labels'[m][k] = [labels[m][p[k]] EXCEPT !.shape = None]
              /\ \A k \in Indices : LabelPath(m, labels'[m][k]) = im_files'[m][k]
              /\ \A j, k \in Indices :
                     j < k => RatLE(RatioOf(im_files'[m][j]), RatioOf(im_files'[m][k]))]_vars

\* set_rectangle has moved the RGB pictures and left the IR pictures, which
\* were in ascending order, where they were.
C19_Witness ==
    /\ main.at = "done"
    /\ batch # None
    /\ im_files["rgb"] # orig_files["rgb"]
    /\ im_files["ir"] = orig_files["ir"]
    /\ \E j, k \in Indices : RatLT(RatioOf(im_files["ir"][j]), RatioOf(im_files["ir"][k]))

====
